---- MODULE Spec2Model ----
(***************************************************************************)
(* cvs2svn_lib/symbol_strategy.py: the strategy rules that decide how a    *)
(* CVS symbol is converted (Branch, Tag, ExcludedSymbol or no decision)    *)
(* and RuleBasedSymbolStrategy, the ordered rule chain built with          *)
(* add_rule and evaluated by get_symbols.                                  *)
(***************************************************************************)
EXTENDS Integers, Sequences, FiniteSets

(***************************************************************************)
(* Bounds of the model.                                                    *)
(***************************************************************************)
\* longest rule chain built with add_rule
MaxRules == 2
\* most statistics records handed to one get_symbols call
MaxStats == 2
\* largest value of a usage counter
MaxCount == 2
\* longest pattern string handed to a pattern rule's constructor
MaxPatLen == 3
\* longest symbol name matched against a pattern
MaxNameLen == 2

(***************************************************************************)
(* Values.  Python's None, a symbol, a statistics record, and the          *)
(* TypedSymbol classes Branch, Tag and ExcludedSymbol wrapping a symbol.   *)
(***************************************************************************)
None == [kind |-> "None"]

Symbol(name, id) == [name |-> name, id |-> id]

Stats(symbol, tag_create_count, branch_create_count, branch_commit_count) ==
  [symbol |-> symbol,
   tag_create_count |-> tag_create_count,
   branch_create_count |-> branch_create_count,
   branch_commit_count |-> branch_commit_count]

Branch(symbol) == [kind |-> "Branch", symbol |-> symbol]

Tag(symbol) == [kind |-> "Tag", symbol |-> symbol]

ExcludedSymbol(symbol) == [kind |-> "ExcludedSymbol", symbol |-> symbol]

\* ACTION(symbol) for the class ACTION a pattern rule was given
Action(action, symbol) ==
  CASE action = "Branch" -> Branch(symbol)
    [] action = "Tag" -> Tag(symbol)
    [] action = "ExcludedSymbol" -> ExcludedSymbol(symbol)

(***************************************************************************)
(* re.compile: a pattern string is a sequence of characters; the parse is  *)
(* the regular expression parser's, for the characters of PatChars and the *)
(* two anchors the constructor adds.  A parsed item is a record            *)
(*   [op, arg, sub]:  literal c | at beginning/end/boundary |              *)
(*   max_repeat <<item>> | subpattern <<branch>> | branch <<seq, ...>> |   *)
(*   seq <<item, ...>>.                                                    *)
(***************************************************************************)
Node(op, arg, sub) == [op |-> op, arg |-> arg, sub |-> sub]

\* the result of a parse that raised re.error
ReError == [ok |-> FALSE, p |-> <<>>, next |-> 0]

\* the character BEL, which "\a" stands for
BEL == "BEL"

\* an escape "\c": \b is the word boundary, \a the character BEL, and an
\* escaped punctuation character is that character
_escape(c) ==
  CASE c = "b" -> Node("at", "boundary", <<>>)
    [] c = "a" -> Node("literal", BEL, <<>>)
    [] OTHER -> Node("literal", c, <<>>)

RECURSIVE _parse_sub(_, _, _)
RECURSIVE _parse(_, _, _)

\* the items of one alternative, read from source[pos] up to a "|", a ")"
\* or the end of the source
_parse(source, pos, subpattern) ==
  IF pos > Len(source) \/ source[pos] \in {"|", ")"}
  THEN [ok |-> TRUE, p |-> subpattern, next |-> pos]
  ELSE
    LET this == source[pos]
        n == Len(subpattern)
    IN CASE this = "\\" ->
              IF pos = Len(source)
              THEN ReError   \* bad escape (end of pattern)
              ELSE _parse(source, pos + 2,
                          Append(subpattern, _escape(source[pos + 1])))
         [] this = "*" ->
              IF n = 0 \/ subpattern[n].op = "at"
              THEN ReError   \* nothing to repeat
              ELSE IF subpattern[n].op = "max_repeat"
              THEN ReError   \* multiple repeat
              ELSE _parse(source, pos + 1,
                          [subpattern EXCEPT
                             ![n] = Node("max_repeat", "", <<subpattern[n]>>)])
         [] this = "(" ->
              LET g == _parse_sub(source, pos + 1, TRUE)
              IN IF ~g.ok
                 THEN ReError
                 ELSE _parse(source, g.next + 1,
                             Append(subpattern,
                                    Node("subpattern", "", <<g.p>>)))
         [] this = "^" ->
              _parse(source, pos + 1,
                     Append(subpattern, Node("at", "beginning", <<>>)))
         [] this = "$" ->
              _parse(source, pos + 1,
                     Append(subpattern, Node("at", "end", <<>>)))
         [] OTHER ->
              _parse(source, pos + 1,
                     Append(subpattern, Node("literal", this, <<>>)))

RECURSIVE _parse_alternatives(_, _, _)
\* the alternatives separated by "|", read from source[pos]
_parse_alternatives(source, pos, items) ==
  LET a == _parse(source, pos, <<>>)
  IN IF ~a.ok
     THEN ReError
     ELSE LET got == Append(items, Node("seq", "", a.p))
          IN IF a.next <= Len(source) /\ source[a.next] = "|"
             THEN _parse_alternatives(source, a.next + 1, got)
             ELSE [ok |-> TRUE, p |-> got, next |-> a.next]

\* a whole pattern (nested = FALSE) or the inside of a group (nested =
\* TRUE), which must end at its ")": a branch of its alternatives
_parse_sub(source, pos, nested) ==
  LET alts == _parse_alternatives(source, pos, <<>>)
  IN IF ~alts.ok
     THEN ReError
     ELSE IF nested
     THEN IF alts.next <= Len(source) /\ source[alts.next] = ")"
          THEN [ok |-> TRUE, p |-> Node("branch", "", alts.p),
                next |-> alts.next]
          ELSE ReError   \* missing ), unterminated subpattern
     ELSE IF alts.next <= Len(source)
          THEN ReError   \* unbalanced parenthesis
          ELSE [ok |-> TRUE, p |-> Node("branch", "", alts.p),
                next |-> alts.next]

\* re.compile(source): the compiled pattern, or re.error raised
re_compile(source) == _parse_sub(source, 1, FALSE)

(***************************************************************************)
(* regexp.match(string): the compiled pattern matches at the start of the  *)
(* string.  _match gives the positions (characters consumed so far) where  *)
(* a match of node that starts at position pos can end.                    *)
(***************************************************************************)
\* a word character (of the characters of the model)
IsWord(c) == c \in {"a", "b"}

\* "\b": between a word character and a non-word character or an end
AtBoundary(string, pos) ==
  LET before == pos > 0 /\ IsWord(string[pos])
      after == pos < Len(string) /\ IsWord(string[pos + 1])
  IN before # after

\* "$": at the end of the string, or just before a newline that ends it
AtEnd(string, pos) ==
  \/ pos = Len(string)
  \/ pos = Len(string) - 1 /\ string[Len(string)] = "\n"

RECURSIVE _match(_, _, _)
RECURSIVE _match_seq(_, _, _, _)
RECURSIVE _match_repeat(_, _, _)

_match(node, string, pos) ==
  CASE node.op = "literal" ->
         IF pos < Len(string) /\ string[pos + 1] = node.arg
         THEN {pos + 1} ELSE {}
    [] node.op = "at" ->
         IF \/ node.arg = "beginning" /\ pos = 0
            \/ node.arg = "end" /\ AtEnd(string, pos)
            \/ node.arg = "boundary" /\ AtBoundary(string, pos)
         THEN {pos} ELSE {}
    [] node.op = "seq" -> _match_seq(node.sub, 1, string, {pos})
    [] node.op = "branch" ->
         UNION {_match(node.sub[k], string, pos) : k \in DOMAIN node.sub}
    [] node.op = "subpattern" -> _match(node.sub[1], string, pos)
    [] node.op = "max_repeat" -> _match_repeat(node.sub[1], string, {pos})

\* the items from the k-th on, each starting where the one before ended
_match_seq(items, k, string, from) ==
  IF k > Len(items)
  THEN from
  ELSE _match_seq(items, k + 1, string,
                  UNION {_match(items[k], string, q) : q \in from})

\* zero or more repetitions of item
_match_repeat(item, string, from) ==
  LET more == from \cup UNION {_match(item, string, q) : q \in from}
  IN IF more = from THEN from ELSE _match_repeat(item, string, more)

\* regexp.match(string) is not None
re_match(regexp, string) == _match(regexp, string, 0) # {}

(***************************************************************************)
(* The strategy rules.  A rule object is a record with its class; a        *)
(* pattern rule also holds its compiled regexp and its action class.       *)
(***************************************************************************)
\* _RegexpStrategyRule.__init__: the rule, or FatalError raised
_RegexpStrategyRule(class, pattern, action) ==
  LET compiled == re_compile(<<"^">> \o pattern \o <<"$">>)
  IN IF compiled.ok
     THEN [raised |-> FALSE,
           rule |-> [class |-> class, regexp |-> compiled.p,
                     action |-> action]]
     ELSE [raised |-> TRUE, rule |-> None]

ForceBranchRegexpStrategyRule(pattern) ==
  _RegexpStrategyRule("ForceBranchRegexpStrategyRule", pattern, "Branch")

ForceTagRegexpStrategyRule(pattern) ==
  _RegexpStrategyRule("ForceTagRegexpStrategyRule", pattern, "Tag")

ExcludeRegexpStrategyRule(pattern) ==
  _RegexpStrategyRule("ExcludeRegexpStrategyRule", pattern, "ExcludedSymbol")

\* the three pattern rule classes
PatternRuleClasses ==
  {"ForceBranchRegexpStrategyRule", "ForceTagRegexpStrategyRule",
   "ExcludeRegexpStrategyRule"}

\* the constructor of a pattern rule class
NewPatternRule(class, pattern) ==
  CASE class = "ForceBranchRegexpStrategyRule" ->
         ForceBranchRegexpStrategyRule(pattern)
    [] class = "ForceTagRegexpStrategyRule" ->
         ForceTagRegexpStrategyRule(pattern)
    [] class = "ExcludeRegexpStrategyRule" ->
         ExcludeRegexpStrategyRule(pattern)

_RegexpStrategyRule_get_symbol(self, stats) ==
  IF re_match(self.regexp, stats.symbol.name)
  THEN Action(self.action, stats.symbol)
  ELSE None

\* UnambiguousUsageRule.get_symbol taking only branch creations, not
\* commits, as branch usage
UnambiguousUsageRule_ignores_commits(stats) ==
  LET is_tag == stats.tag_create_count > 0
      is_branch == stats.branch_create_count > 0
  IN IF is_tag /\ is_branch THEN None
     ELSE IF is_branch THEN Branch(stats.symbol)
     ELSE IF is_tag THEN Tag(stats.symbol)
     ELSE None

\* UnambiguousUsageRule.get_symbol testing is_tag before the ambiguity
UnambiguousUsageRule_tag_first(stats) ==
  LET is_tag == stats.tag_create_count > 0
      is_branch == stats.branch_create_count > 0
                     \/ stats.branch_commit_count > 0
  IN IF is_tag THEN Tag(stats.symbol)
     ELSE IF is_branch THEN Branch(stats.symbol)
     ELSE None

UnambiguousUsageRule_get_symbol(stats) ==
  LET is_tag == stats.tag_create_count > 0
      is_branch == stats.branch_create_count > 0
                     \/ stats.branch_commit_count > 0
  IN IF is_tag /\ is_branch THEN None
     ELSE IF is_branch THEN Branch(stats.symbol)
     ELSE IF is_tag THEN Tag(stats.symbol)
     ELSE None

BranchIfCommitsRule_get_symbol(stats) ==
  IF stats.branch_commit_count > 0 THEN Branch(stats.symbol) ELSE None

\* HeuristicStrategyRule.get_symbol with ">" for ">="
HeuristicStrategyRule_strict(stats) ==
  IF stats.tag_create_count > stats.branch_create_count
  THEN Tag(stats.symbol)
  ELSE Branch(stats.symbol)

HeuristicStrategyRule_get_symbol(stats) ==
  IF stats.tag_create_count >= stats.branch_create_count
  THEN Tag(stats.symbol)
  ELSE Branch(stats.symbol)

\* AllBranchRule.get_symbol leaving a symbol that was never used undecided
AllBranchRule_skips_unused(stats) ==
  IF stats.tag_create_count = 0 /\ stats.branch_create_count = 0
       /\ stats.branch_commit_count = 0
  THEN None
  ELSE Branch(stats.symbol)

AllBranchRule_get_symbol(stats) == Branch(stats.symbol)

AllTagRule_get_symbol(stats) == Tag(stats.symbol)

UnambiguousUsageRule == [class |-> "UnambiguousUsageRule"]

BranchIfCommitsRule == [class |-> "BranchIfCommitsRule"]

HeuristicStrategyRule == [class |-> "HeuristicStrategyRule"]

AllBranchRule == [class |-> "AllBranchRule"]

AllTagRule == [class |-> "AllTagRule"]

\* rule.get_symbol(stats), dispatched on the rule's class
get_symbol(rule, stats) ==
  CASE rule.class \in PatternRuleClasses ->
         _RegexpStrategyRule_get_symbol(rule, stats)
    [] rule.class = "UnambiguousUsageRule" ->
         UnambiguousUsageRule_get_symbol(stats)
    [] rule.class = "BranchIfCommitsRule" ->
         BranchIfCommitsRule_get_symbol(stats)
    [] rule.class = "HeuristicStrategyRule" ->
         HeuristicStrategyRule_get_symbol(stats)
    [] rule.class = "AllBranchRule" -> AllBranchRule_get_symbol(stats)
    [] rule.class = "AllTagRule" -> AllTagRule_get_symbol(stats)

(***************************************************************************)
(* RuleBasedSymbolStrategy.  One strategy object; get_symbols runs as the  *)
(* steps of its two loops, pc being the position of the call.              *)
(***************************************************************************)
VARIABLES
  _rules,         \* self._rules
  pc,             \* "idle" | "for_stats" | "for_rule" | "if_symbol" |
                  \* "if_mismatches" | "done"
  symbol_stats,   \* the argument of the get_symbols call
  i,              \* position of "for stats in symbol_stats"
  j,              \* position of "for rule in self._rules"
  symbol,         \* what _get_symbol returned for symbol_stats[i]
  symbols,        \* get_symbols' list symbols
  mismatches,     \* get_symbols' list mismatches
  stderr,         \* the statistics records the call wrote to sys.stderr
  returned,       \* what get_symbols returned
  consulted,      \* the rules (by position) asked about symbol_stats[i]
  rules_at_start, \* self._rules as it was when the call began
  pattern,        \* the pattern string handed to a pattern rule's __init__
  pattern_rule,   \* the pattern rule object constructed from it
  fatal           \* FatalError was raised

vars ==
  <<_rules, pc, symbol_stats, i, j, symbol, symbols, mismatches, stderr,
    returned, consulted, rules_at_start, pattern, pattern_rule, fatal>>

\* no get_symbols call has returned
NotReturned == [none |-> FALSE, list |-> <<>>, is_set |-> FALSE]

\* get_symbols returned None
ReturnedNone == [none |-> TRUE, list |-> <<>>, is_set |-> TRUE]

\* get_symbols returned the list
ReturnedList(list) == [none |-> FALSE, list |-> list, is_set |-> TRUE]

\* no pattern rule was constructed
NoPattern == <<"no pattern">>

\* __init__, and no call in progress
Init ==
  /\ _rules = <<>>
  /\ pc = "idle"
  /\ symbol_stats = <<>>
  /\ i = 0
  /\ j = 0
  /\ symbol = None
  /\ symbols = <<>>
  /\ mismatches = <<>>
  /\ stderr = <<>>
  /\ returned = NotReturned
  /\ consulted = {}
  /\ rules_at_start = <<>>
  /\ pattern = NoPattern
  /\ pattern_rule = None
  /\ fatal = FALSE

add_rule(rule) ==
  /\ _rules' = Append(_rules, rule)
  /\ UNCHANGED <<pc, symbol_stats, i, j, symbol, symbols, mismatches, stderr,
                 returned, consulted, rules_at_start, pattern, pattern_rule,
                 fatal>>

\* get_symbols is called: symbols = [], mismatches = [], and the loop over
\* symbol_stats begins
get_symbols(input) ==
  /\ pc = "idle"
  /\ pc' = "for_stats"
  /\ symbol_stats' = input
  /\ i' = 0
  /\ j' = 0
  /\ symbol' = None
  /\ symbols' = <<>>
  /\ mismatches' = <<>>
  /\ stderr' = <<>>
  /\ returned' = NotReturned
  /\ consulted' = {}
  /\ rules_at_start' = _rules
  /\ UNCHANGED <<_rules, pattern, pattern_rule,
                 fatal>>

\* for_stats leaving the loop at the first mismatch
for_stats_fail_fast ==
  /\ pc = "for_stats"
  /\ IF i < Len(symbol_stats) /\ mismatches = <<>>
     THEN /\ i' = i + 1
          /\ j' = 0
          /\ consulted' = {}
          /\ pc' = "for_rule"
     ELSE /\ pc' = "if_mismatches"
          /\ UNCHANGED <<i, j, consulted>>
  /\ UNCHANGED <<_rules, symbol_stats, symbol, symbols, mismatches, stderr,
                 returned, rules_at_start, pattern, pattern_rule, fatal>>

\* "for stats in symbol_stats": the next record, for which _get_symbol is
\* called and its loop over self._rules begins, or the end of the loop
for_stats ==
  /\ pc = "for_stats"
  /\ IF i < Len(symbol_stats)
     THEN /\ i' = i + 1
          /\ j' = 0
          /\ consulted' = {}
          /\ pc' = "for_rule"
     ELSE /\ pc' = "if_mismatches"
          /\ UNCHANGED <<i, j, consulted>>
  /\ UNCHANGED <<_rules, symbol_stats, symbol, symbols, mismatches, stderr,
                 returned, rules_at_start, pattern, pattern_rule,
                 fatal>>

\* for_rule without the return inside the loop: every rule is asked and
\* the last decision is returned
for_rule_no_return ==
  /\ pc = "for_rule"
  /\ IF j < Len(_rules)
     THEN LET rule == _rules[j + 1]
              got == get_symbol(rule, symbol_stats[i])
              so_far == IF j = 0 THEN None ELSE symbol
          IN /\ j' = j + 1
             /\ consulted' = consulted \cup {j + 1}
             /\ symbol' = IF got # None THEN got ELSE so_far
             /\ UNCHANGED pc
     ELSE /\ symbol' = IF j = 0 THEN None ELSE symbol
          /\ pc' = "if_symbol"
          /\ UNCHANGED <<j, consulted>>
  /\ UNCHANGED <<_rules, symbol_stats, i, symbols, mismatches, stderr,
                 returned, rules_at_start, pattern, pattern_rule, fatal>>

\* "for rule in self._rules" of _get_symbol: the next rule of the list as
\* it is now is asked; its decision is returned, or the loop goes on; at
\* the end of the list None is returned
for_rule ==
  /\ pc = "for_rule"
  /\ IF j < Len(_rules)
     THEN LET rule == _rules[j + 1]
              got == get_symbol(rule, symbol_stats[i])
          IN /\ j' = j + 1
             /\ consulted' = consulted \cup {j + 1}
             /\ IF got # None
                THEN /\ symbol' = got
                     /\ pc' = "if_symbol"
                ELSE UNCHANGED <<symbol, pc>>
     ELSE /\ symbol' = None
          /\ pc' = "if_symbol"
          /\ UNCHANGED <<j, consulted>>
  /\ UNCHANGED <<_rules, symbol_stats, i, symbols, mismatches, stderr,
                 returned, rules_at_start, pattern, pattern_rule,
                 fatal>>

\* if_symbol taking an ExcludedSymbol for no decision
if_symbol_excluded_is_none ==
  /\ pc = "if_symbol"
  /\ IF symbol # None /\ symbol.kind # "ExcludedSymbol"
     THEN /\ symbols' = Append(symbols, symbol)
          /\ UNCHANGED mismatches
     ELSE /\ mismatches' = Append(mismatches, symbol_stats[i])
          /\ UNCHANGED symbols
  /\ pc' = "for_stats"
  /\ UNCHANGED <<_rules, symbol_stats, i, j, symbol, stderr, returned,
                 consulted, rules_at_start, pattern, pattern_rule, fatal>>

\* "if symbol is not None": the decision is appended to symbols, or the
\* record to mismatches
if_symbol ==
  /\ pc = "if_symbol"
  /\ IF symbol # None
     THEN /\ symbols' = Append(symbols, symbol)
          /\ UNCHANGED mismatches
     ELSE /\ mismatches' = Append(mismatches, symbol_stats[i])
          /\ UNCHANGED symbols
  /\ pc' = "for_stats"
  /\ UNCHANGED <<_rules, symbol_stats, i, j, symbol, stderr, returned,
                 consulted, rules_at_start, pattern, pattern_rule,
                 fatal>>

\* "if mismatches": every mismatch is written to sys.stderr and None is
\* returned, or symbols is returned
if_mismatches ==
  /\ pc = "if_mismatches"
  /\ IF mismatches # <<>>
     THEN /\ stderr' = mismatches
          /\ returned' = ReturnedNone
     ELSE /\ returned' = ReturnedList(symbols)
          /\ UNCHANGED stderr
  /\ pc' = "done"
  /\ UNCHANGED <<_rules, symbol_stats, i, j, symbol, symbols, mismatches,
                 consulted, rules_at_start, pattern, pattern_rule,
                 fatal>>

\* get_symbols has returned to its caller: its locals are gone, and the
\* strategy can be given more rules and called again
call_returns ==
  /\ pc = "done"
  /\ pc' = "idle"
  /\ symbol_stats' = <<>>
  /\ i' = 0
  /\ j' = 0
  /\ symbol' = None
  /\ symbols' = <<>>
  /\ mismatches' = <<>>
  /\ stderr' = <<>>
  /\ returned' = NotReturned
  /\ consulted' = {}
  /\ rules_at_start' = <<>>
  /\ UNCHANGED <<_rules, pattern, pattern_rule,
                 fatal>>

\* a pattern rule is constructed: _RegexpStrategyRule.__init__ compiles the
\* pattern and gives the rule object, or raises FatalError
construct_pattern_rule(class, pat) ==
  /\ pattern = NoPattern
  /\ pattern' = pat
  /\ LET new == NewPatternRule(class, pat)
     IN IF new.raised
        THEN /\ fatal' = TRUE
             /\ UNCHANGED pattern_rule
        ELSE /\ pattern_rule' = new.rule
             /\ UNCHANGED fatal
  /\ UNCHANGED <<_rules, pc, symbol_stats, i, j, symbol, symbols, mismatches,
                 stderr, returned, consulted, rules_at_start>>

(***************************************************************************)
(* Spec: a strategy built with add_rule and then evaluated, each call made *)
(* after the one before has returned.                                      *)
(***************************************************************************)
\* the name of the symbol with the given id: "a", "b", "bb", ...
SymbolName(id) == IF id = 1 THEN <<"a">> ELSE [k \in 1..(id - 1) |-> "b"]

\* the values a usage counter takes in the records given to a chain
ChainCounts == {0, 1}

\* the statistics records of the symbol with the given id
ChainStats(id) ==
  {Stats(Symbol(SymbolName(id), id), t, b, c) :
     t \in ChainCounts, b \in ChainCounts, c \in ChainCounts}

\* the inputs of get_symbols: records of distinct symbols
ChainInputs ==
  {input \in UNION {[1..n -> UNION {ChainStats(id) : id \in 1..MaxStats}] :
                      n \in 0..MaxStats} :
     \A k \in DOMAIN input : \A l \in DOMAIN input :
        k < l => input[k].symbol.id < input[l].symbol.id}

\* the rules given to add_rule
ChainRules ==
  {ExcludeRegexpStrategyRule(<<"a">>).rule, UnambiguousUsageRule,
   BranchIfCommitsRule, AllBranchRule, AllTagRule}

AddRule ==
  /\ pc = "idle"
  /\ Len(_rules) < MaxRules
  /\ \E r \in ChainRules : add_rule(r)

GetSymbols == \E input \in ChainInputs : get_symbols(input)

Next ==
  \/ AddRule
  \/ GetSymbols
  \/ for_stats
  \/ for_rule
  \/ if_symbol
  \/ if_mismatches
  \/ call_returns

Spec == Init /\ [][Next]_vars

(***************************************************************************)
(* SpecReentrant: as Spec, and add_rule is also called while a get_symbols *)
(* call is in its loops (by a rule's get_symbol, or by another thread).    *)
(***************************************************************************)
AddRuleDuringCall ==
  /\ pc \in {"for_stats", "for_rule", "if_symbol"}
  /\ Len(_rules) < MaxRules
  /\ \E r \in ChainRules : add_rule(r)

NextReentrant == Next \/ AddRuleDuringCall

SpecReentrant == Init /\ [][NextReentrant]_vars

(***************************************************************************)
(* SpecCounters: chains of the rules that decide from the usage counters,  *)
(* evaluated on one record with every combination of counter values.       *)
(***************************************************************************)
CounterRules ==
  {UnambiguousUsageRule, BranchIfCommitsRule, HeuristicStrategyRule,
   AllBranchRule, AllTagRule}

CounterInputs ==
  {<<Stats(Symbol(<<"a">>, 1), t, b, c)>> :
     t \in 0..MaxCount, b \in 0..MaxCount, c \in 0..MaxCount}

AddCounterRule ==
  /\ pc = "idle"
  /\ Len(_rules) < MaxRules
  /\ \E r \in CounterRules : add_rule(r)

GetSymbolsOfCounters == \E input \in CounterInputs : get_symbols(input)

NextCounters ==
  \/ AddCounterRule
  \/ GetSymbolsOfCounters
  \/ for_stats
  \/ for_rule
  \/ if_symbol
  \/ if_mismatches
  \/ call_returns

SpecCounters == Init /\ [][NextCounters]_vars

(***************************************************************************)
(* SpecRegexp: one pattern rule is constructed from any pattern string,    *)
(* added to the strategy, and evaluated on any symbol name.  FatalError    *)
(* ends the program.                                                       *)
(***************************************************************************)
\* the characters of a pattern string
PatChars == {"a", "b", "|", "(", ")", "*", "\\"}

\* the characters of a symbol name
NameChars == {"a", "b"}

Patterns == UNION {[1..n -> PatChars] : n \in 0..MaxPatLen}

Names == UNION {[1..n -> NameChars] : n \in 0..MaxNameLen}

ConstructPatternRule ==
  \E class \in PatternRuleClasses : \E pat \in Patterns :
     construct_pattern_rule(class, pat)

AddPatternRule ==
  /\ ~fatal
  /\ pattern_rule # None
  /\ _rules = <<>>
  /\ pc = "idle"
  /\ add_rule(pattern_rule)

GetSymbolsOfName ==
  /\ ~fatal
  /\ _rules # <<>>
  /\ \E name \in Names : get_symbols(<<Stats(Symbol(name, 1), 0, 0, 0)>>)

NextRegexp ==
  \/ ConstructPatternRule
  \/ AddPatternRule
  \/ GetSymbolsOfName
  \/ for_stats
  \/ for_rule
  \/ if_symbol
  \/ if_mismatches
  \/ call_returns

SpecRegexp == Init /\ [][NextRegexp]_vars

(***************************************************************************)
(* Properties.                                                             *)
(***************************************************************************)
\* the record _get_symbol is deciding or has just decided
CurrentStats == symbol_stats[i]

\* every rule of the chain abstains on the record
AllAbstain(rules, stats) ==
  \A k \in DOMAIN rules : get_symbol(rules[k], stats) = None

\* the positions (none or one) of the first rule of the chain, in append
\* order, that does not abstain on the record
FirstDeciding(rules, stats) ==
  {k \in DOMAIN rules :
     /\ get_symbol(rules[k], stats) # None
     /\ \A m \in 1..(k - 1) : get_symbol(rules[m], stats) = None}

\* the decision of the first rule that does not abstain, None if all do
ChainDecision(rules, stats) ==
  IF AllAbstain(rules, stats)
  THEN None
  ELSE get_symbol(rules[CHOOSE k \in FirstDeciding(rules, stats) : TRUE],
                  stats)

\* the chain in the opposite order
Reversed(rules) ==
  [k \in DOMAIN rules |-> rules[Len(rules) + 1 - k]]

\* what the rule asked last, _rules[j], answered
LastAnswer == IF pc = "if_symbol" /\ symbol # None THEN symbol ELSE None

\* the rule asked last about the current record is of the given class
LastAsked(class) ==
  /\ pc \in {"for_rule", "if_symbol"}
  /\ j >= 1
  /\ j <= Len(_rules)
  /\ _rules[j].class = class

\* C1: first match wins.  While _get_symbol runs, the rules asked are
\* exactly the first j of the chain; what it returns for a record is the
\* decision of the first rule in append order that does not abstain, with
\* no rule after that one asked; it returns None only when every rule of
\* the chain abstains, and only such records are put in mismatches.
C1_FirstMatchWins ==
  /\ pc \in {"for_rule", "if_symbol"} => consulted = 1..j
  /\ pc = "if_symbol" =>
       /\ \A k \in FirstDeciding(_rules, CurrentStats) :
            /\ symbol = get_symbol(_rules[k], CurrentStats)
            /\ consulted = 1..k
       /\ symbol = None <=> AllAbstain(_rules, CurrentStats)
       /\ symbol = None => consulted = DOMAIN _rules
  /\ \A m \in DOMAIN mismatches : AllAbstain(_rules, mismatches[m])

\* C1's case: two rules would decide differently, and the first has
C1_Witness ==
  /\ pc = "if_symbol"
  /\ Len(_rules) = 2
  /\ get_symbol(_rules[1], CurrentStats) # None
  /\ get_symbol(_rules[2], CurrentStats) # None
  /\ get_symbol(_rules[1], CurrentStats) # get_symbol(_rules[2], CurrentStats)
  /\ symbol = get_symbol(_rules[1], CurrentStats)
  /\ consulted = {1}

\* C2: aggregated all-or-nothing failure.  Nothing is returned before every
\* record has been evaluated; when at least one record is matched by no
\* rule, get_symbols returns None, no list, and the records written to
\* sys.stderr are exactly the records on which every rule abstained.
C2_AggregatedFailure ==
  /\ pc \in {"for_stats", "for_rule", "if_symbol", "if_mismatches"} =>
       returned = NotReturned
  /\ pc = "done" =>
       LET unresolved ==
             {k \in DOMAIN symbol_stats : AllAbstain(_rules, symbol_stats[k])}
       IN /\ i = Len(symbol_stats)
          /\ Len(symbols) + Len(mismatches) = Len(symbol_stats)
          /\ unresolved # {} =>
               /\ returned = ReturnedNone
               /\ {stderr[m] : m \in DOMAIN stderr}
                    = {symbol_stats[k] : k \in unresolved}
               /\ Len(stderr) = Cardinality(unresolved)

\* C2's case: the first record is a mismatch, the second was evaluated and
\* decided, and the call failed
C2_Witness ==
  /\ pc = "done"
  /\ Len(symbol_stats) = 2
  /\ AllAbstain(_rules, symbol_stats[1])
  /\ ~AllAbstain(_rules, symbol_stats[2])
  /\ _rules # <<>>
  /\ returned = ReturnedNone
  /\ stderr = <<symbol_stats[1]>>

\* C3: on success one classification per record.  The list returned has
\* the length of the input, its k-th element is a Branch, Tag or
\* ExcludedSymbol of the k-th record's symbol, and each symbol of the input
\* is wrapped by exactly one element; a record whose first deciding rule is
\* an Exclude rule is no mismatch and appears as ExcludedSymbol.
C3_OnePerRecord ==
  pc = "done" =>
    /\ \A k \in DOMAIN symbol_stats :
         \A r \in FirstDeciding(_rules, symbol_stats[k]) :
            _rules[r].class = "ExcludeRegexpStrategyRule" =>
              /\ \A m \in DOMAIN mismatches : mismatches[m] # symbol_stats[k]
              /\ \E m \in DOMAIN symbols :
                    symbols[m] = ExcludedSymbol(symbol_stats[k].symbol)
    /\ ~returned.none =>
         /\ returned.is_set
         /\ Len(returned.list) = Len(symbol_stats)
         /\ \A k \in DOMAIN symbol_stats :
              /\ returned.list[k].kind \in {"Branch", "Tag", "ExcludedSymbol"}
              /\ returned.list[k].symbol = symbol_stats[k].symbol
              /\ Cardinality({m \in DOMAIN returned.list :
                                returned.list[m].symbol
                                  = symbol_stats[k].symbol}) = 1

\* C3's case: a successful call on two records, one of them excluded
C3_Witness ==
  /\ pc = "done"
  /\ Len(symbol_stats) = 2
  /\ ~returned.none
  /\ Len(returned.list) = 2
  /\ returned.list[1].kind = "ExcludedSymbol"
  /\ returned.list[2].kind = "Tag"

\* C4: the rule list is frozen once evaluation begins.  Every rule asked
\* about a record of a call is a rule of the list as it was when the call
\* began, and what _get_symbol returns is what that list decides.
C4_RuleListFrozen ==
  pc \in {"for_rule", "if_symbol"} =>
    /\ consulted \subseteq DOMAIN rules_at_start
    /\ pc = "if_symbol" => symbol = ChainDecision(rules_at_start, CurrentStats)

\* C5: a chain with AllBranchRule or AllTagRule in it never fails.  The
\* call returns a list with one classification per record and writes
\* nothing to sys.stderr; a chain of AllBranchRule alone makes every record
\* a Branch.
C5_CatchAllNeverFails ==
  (/\ pc = "done"
   /\ \E k \in DOMAIN _rules : _rules[k] \in {AllBranchRule, AllTagRule}) =>
    /\ returned.is_set
    /\ ~returned.none
    /\ stderr = <<>>
    /\ mismatches = <<>>
    /\ Len(returned.list) = Len(symbol_stats)
    /\ (\A k \in DOMAIN _rules : _rules[k] = AllBranchRule) =>
         \A k \in DOMAIN symbol_stats :
            returned.list[k] = Branch(symbol_stats[k].symbol)

\* C5's case: a record on which every rule before the catch-all abstains
C5_Witness ==
  /\ pc = "done"
  /\ _rules = <<UnambiguousUsageRule, AllBranchRule>>
  /\ Len(symbol_stats) = 2
  /\ UnambiguousUsageRule_get_symbol(symbol_stats[1]) = None
  /\ ~returned.none
  /\ Len(returned.list) = 2

\* C6: UnambiguousUsageRule.get_symbol abstains when the symbol was used
\* both as a tag and as a branch (created or committed on), gives Branch
\* for branch usage alone, Tag for tag usage alone, and abstains when the
\* symbol was not used; it never gives ExcludedSymbol.
C6_UnambiguousUsage ==
  LastAsked("UnambiguousUsageRule") =>
    LET is_tag == CurrentStats.tag_create_count > 0
        is_branch == \/ CurrentStats.branch_create_count > 0
                     \/ CurrentStats.branch_commit_count > 0
    IN /\ is_tag /\ is_branch => LastAnswer = None
       /\ ~is_tag /\ is_branch => LastAnswer = Branch(CurrentStats.symbol)
       /\ is_tag /\ ~is_branch => LastAnswer = Tag(CurrentStats.symbol)
       /\ ~is_tag /\ ~is_branch => LastAnswer = None
       /\ LastAnswer.kind # "ExcludedSymbol"

\* C6's case: a tag with commits but no branch creation, left undecided
C6_Witness ==
  /\ LastAsked("UnambiguousUsageRule")
  /\ CurrentStats.tag_create_count > 0
  /\ CurrentStats.branch_create_count = 0
  /\ CurrentStats.branch_commit_count > 0
  /\ LastAnswer = None

\* C7: HeuristicStrategyRule.get_symbol never abstains: it gives Tag when
\* tag_create_count >= branch_create_count and Branch otherwise, whatever
\* branch_commit_count is; equal counts give Tag.
C7_Heuristic ==
  LastAsked("HeuristicStrategyRule") =>
    /\ pc = "if_symbol"
    /\ symbol # None
    /\ symbol = IF CurrentStats.tag_create_count
                     >= CurrentStats.branch_create_count
                THEN Tag(CurrentStats.symbol)
                ELSE Branch(CurrentStats.symbol)

\* C7's case: equal counts above zero, with commits on the branch
C7_Witness ==
  /\ LastAsked("HeuristicStrategyRule")
  /\ CurrentStats.tag_create_count = CurrentStats.branch_create_count
  /\ CurrentStats.tag_create_count > 0
  /\ CurrentStats.branch_commit_count > 0
  /\ symbol = Tag(CurrentStats.symbol)

\* a name is matched as a whole by the pattern as it was given
FullMatch(pat, name) ==
  LET compiled == re_compile(pat)
  IN compiled.ok /\ Len(name) \in _match(compiled.p, name, 0)

\* C8: pattern rules are fully anchored.  A pattern rule made from a
\* pattern that is a regular expression gives its fixed classification
\* when the pattern matches the whole symbol name, and abstains otherwise.
C8_FullyAnchored ==
  (/\ pc = "if_symbol"
   /\ pattern # NoPattern
   /\ re_compile(pattern).ok) =>
    IF FullMatch(pattern, CurrentStats.symbol.name)
    THEN symbol = Action(pattern_rule.action, CurrentStats.symbol)
    ELSE symbol = None

\* C9: a malformed pattern is rejected at construction.  FatalError is
\* raised by the constructor exactly when the pattern string is not a
\* regular expression, and then no rule object exists, none was added and
\* nothing was evaluated.
C9_MalformedRejected ==
  pattern # NoPattern =>
    /\ fatal <=> ~re_compile(pattern).ok
    /\ fatal => pattern_rule = None /\ _rules = <<>> /\ pc = "idle"

\* C10: BranchIfCommitsRule and UnambiguousUsageRule never conflict.
\* BranchIfCommitsRule gives Branch exactly when branch_commit_count > 0 and
\* abstains otherwise, and a chain of the two rules returns for a record
\* what the chain in the opposite order decides.
C10_OrderIrrelevant ==
  /\ LastAsked("BranchIfCommitsRule") =>
       LastAnswer = IF CurrentStats.branch_commit_count > 0
                    THEN Branch(CurrentStats.symbol)
                    ELSE None
  /\ (/\ pc = "if_symbol"
      /\ _rules \in {<<UnambiguousUsageRule, BranchIfCommitsRule>>,
                     <<BranchIfCommitsRule, UnambiguousUsageRule>>}) =>
       symbol = ChainDecision(Reversed(_rules), CurrentStats)

\* C10's case: UnambiguousUsageRule abstains on a symbol used both ways and
\* BranchIfCommitsRule, asked after it, decides
C10_Witness ==
  /\ pc = "if_symbol"
  /\ _rules = <<UnambiguousUsageRule, BranchIfCommitsRule>>
  /\ CurrentStats.tag_create_count > 0
  /\ CurrentStats.branch_commit_count > 0
  /\ consulted = {1, 2}
  /\ symbol = Branch(CurrentStats.symbol)

====
